---------------------------- MODULE Spec2Model ----------------------------
(***************************************************************************)
(* Two-stage rocket ascent simulator (useSimulation hook).                 *)
(*                                                                         *)
(* Quantities are integers in SI units (m, m/s, m/s^2, kg, N); every       *)
(* product/quotient of the source is taken in the same order and rounded   *)
(* down (fixed point).  Elapsed time is counted in ticks of 1/8 s, so that *)
(* dt = 0.25 s (2 ticks), dt = 0.5 s (4 ticks) and the RK4 half steps are  *)
(* whole numbers.  Angles are in micro-radians.  exp, sin and cos have no  *)
(* integer form: OneMinusExp, Sin and Cos below stand for them and keep    *)
(* their sign, their zeros, their bounds and their monotonicity.           *)
(***************************************************************************)
EXTENDS Integers, Sequences, FiniteSets, TLC

VARIABLES
    params,          \* LaunchParameters of the call in progress
    pc,              \* position of runSimulation
    state,           \* EnhancedStateVector (let state)
    trajectoryData,  \* TrajectoryPoint[] of the call in progress
    separationTime,  \* ticks
    separationAltitude,
    phaseEndTime,    \* stage2EndTime, then coastEndTime / insertionEndTime
    stepCount,       \* per-phase step counter of the orbital-insertion hook
    simulation,      \* useState: SimulationResult | null
    isRunning,       \* useState
    error,           \* useState: string | null
    now,             \* Date.now()
    runs,            \* calls of runSimulation started so far
    previous,        \* trajectory of the call that settled before this one
    pending          \* arguments of the calls suspended in the await, oldest first

vars == <<params, pc, state, trajectoryData, separationTime, separationAltitude,
          phaseEndTime, stepCount, simulation, isRunning, error, now, runs,
          previous, pending>>

\* null of useState<SimulationResult | null> and useState<string | null>
NULL == [status |-> "null"]

----------------------------------------------------------------------------
(* Arithmetic helpers *)

Abs(x) == IF x < 0 THEN -x ELSE x

Sign(x) == IF x > 0 THEN 1 ELSE IF x < 0 THEN -1 ELSE 0

Max(a, b) == IF a >= b THEN a ELSE b

Min(a, b) == IF a <= b THEN a ELSE b

\* floor(a * b / c) for c > 0 without forming a * b
MulDiv(a, b, c) == (a \div c) * b + ((a % c) * b) \div c

\* ceil(a / b) for b > 0
CeilDiv(a, b) == -((-a) \div b)

RECURSIVE SqrtSearch(_, _, _)
SqrtSearch(n, lo, hi) ==
    IF hi - lo <= 1 THEN lo
    ELSE LET mid == (lo + hi) \div 2
         IN  IF mid * mid <= n THEN SqrtSearch(n, mid, hi)
             ELSE SqrtSearch(n, lo, mid)

\* Math.sqrt on non-negative integers (rounded down)
Sqrt(n) == SqrtSearch(n, 0, 46341)

----------------------------------------------------------------------------
(* Units *)

TicksPerSecond == 8

MillisPerTick == 125

Sec(s) == s * TicksPerSecond

PI == 3141593

HalfPi == PI \div 2

\* stand-in for 1 - exp(-altitude / scale), in thousandths: 0 at 0, negative
\* below, increasing, below 1000
OneMinusExp(altitude, scale) ==
    IF altitude <= 0 THEN (altitude * 1000) \div scale
    ELSE (1000 * (altitude \div 100)) \div ((scale + altitude) \div 100)

\* stand-ins for Math.sin / Math.cos of an angle in micro-radians, in
\* thousandths: exact at 0 and at +-pi/2
Sin(a) == Max(-1000, Min(1000, (Max(-2000000, Min(2000000, a)) * 1000) \div HalfPi))

Cos(a) == 1000 - Abs(Sin(a))

----------------------------------------------------------------------------
(* Physical constants (PHYSICS_CONSTANTS) *)

\* G * EARTH_MASS in km^3/s^2 * 1000 (3.98603e14 m^3/s^2)
GM == 398603

EARTH_RADIUS == 6378137

\* STANDARD_GRAVITY in cm/s^2
STANDARD_GRAVITY == 981

KARMAN_LINE == 100000

\* EARTH_ROTATION_RATE * EARTH_RADIUS * cos(latitude) at the form's default
\* latitude 28.5721 (m/s)
earthRotationBonus == 408

\* minimum mass of the integrator (kg)
MassFloor == 1000

\* ATMOSPHERIC_LAYERS: temperature in 0.01 K, pressure in Pa, lapseRate in
\* 0.0001 K/m
ATMOSPHERIC_LAYERS == <<
    [altitude |-> 0,     temperature |-> 28815, pressure |-> 101325, lapseRate |-> -65],
    [altitude |-> 11000, temperature |-> 21665, pressure |-> 22632,  lapseRate |-> 0],
    [altitude |-> 20000, temperature |-> 21665, pressure |-> 5475,   lapseRate |-> 10],
    [altitude |-> 32000, temperature |-> 22865, pressure |-> 868,    lapseRate |-> 28],
    [altitude |-> 47000, temperature |-> 27065, pressure |-> 111,    lapseRate |-> 0],
    [altitude |-> 51000, temperature |-> 27065, pressure |-> 67,     lapseRate |-> -28],
    [altitude |-> 71000, temperature |-> 21465, pressure |-> 4,      lapseRate |-> -20] >>

\* the loop as it would be with altitude > base: a boundary altitude falls
\* into the layer below
RECURSIVE FindLayerAboveBase(_, _)
FindLayerAboveBase(altitude, i) ==
    IF i < 1 THEN 1
    ELSE IF altitude > ATMOSPHERIC_LAYERS[i].altitude THEN i
    ELSE FindLayerAboveBase(altitude, i - 1)

\* the loop of getAtmosphericProperties: from the top layer down, the first
\* layer whose base is <= altitude; the first layer when none is
RECURSIVE FindLayer(_, _)
FindLayer(altitude, i) ==
    IF i < 1 THEN 1
    ELSE IF altitude >= ATMOSPHERIC_LAYERS[i].altitude THEN i
    ELSE FindLayer(altitude, i - 1)

\* base pressure of the layer above layer i (0 above the last layer)
NextPressure(i) ==
    IF i < Len(ATMOSPHERIC_LAYERS) THEN ATMOSPHERIC_LAYERS[i + 1].pressure ELSE 0

NextAltitude(i) ==
    IF i < Len(ATMOSPHERIC_LAYERS) THEN ATMOSPHERIC_LAYERS[i + 1].altitude
    ELSE KARMAN_LINE + 1

Vacuum == [density |-> 0, pressure |-> 0, temperature |-> 0, soundSpeed |-> 0, layer |-> 0]

\* density in g/m^3, temperature in 0.01 K, soundSpeed in m/s.  The
\* barometric exp / pow is replaced by the straight line from the layer's
\* base pressure to the next layer's base pressure.
LayerProperties(altitude, i, layer) ==
    LET h == altitude - layer.altitude
        temperature == layer.temperature + (layer.lapseRate * h) \div 100
        pressure == layer.pressure
                    - ((layer.pressure - NextPressure(i)) * h)
                      \div (NextAltitude(i) - layer.altitude)
        density == (pressure * 1000) \div ((287 * temperature) \div 100)
        soundSpeed == Sqrt((14 * 287 * temperature) \div 1000)
    IN  [density |-> density, pressure |-> pressure,
         temperature |-> temperature, soundSpeed |-> soundSpeed,
         layer |-> i]

AtmosphereInLayer(altitude, i) == LayerProperties(altitude, i, ATMOSPHERIC_LAYERS[i])

\* the lookup as it would be if vacuum began at the base of the last layer
getAtmosphericPropertiesLowVacuum(altitude0) ==
    LET altitude == IF altitude0 < 0 THEN 0 ELSE altitude0
    IN  IF altitude > ATMOSPHERIC_LAYERS[Len(ATMOSPHERIC_LAYERS)].altitude THEN Vacuum
        ELSE AtmosphereInLayer(altitude, FindLayer(altitude, Len(ATMOSPHERIC_LAYERS)))

getAtmosphericProperties(altitude0) ==
    LET altitude == IF altitude0 < 0 THEN 0 ELSE altitude0
    IN  IF altitude > KARMAN_LINE THEN Vacuum
        ELSE AtmosphereInLayer(altitude, FindLayer(altitude, Len(ATMOSPHERIC_LAYERS)))

\* magnitude in m/s^2 (the J2 term, below 0.7 %, is under the resolution)
getGravityVector(altitude) ==
    LET r == (EARTH_RADIUS + altitude) \div 1000
    IN  [magnitude |-> (GM * 1000) \div (r * r), radius |-> EARTH_RADIUS + altitude]

\* velocity in m/s, dragCoeff in hundredths, forces in N, machNumber in
\* thousandths
DragInAtmosphere(velocity, dragCoeff, referenceArea, atm) ==
    IF atm.density < 1 \/ Abs(velocity) < 1
    THEN [dragForce |-> 0, machNumber |-> 0, dynamicPressure |-> 0,
          adjustedDragCoeff |-> dragCoeff]
    ELSE LET machNumber == (Abs(velocity) * 1000) \div atm.soundSpeed
             dynamicPressure == MulDiv((velocity * velocity) \div 2, atm.density, 1000)
             adjustedDragCoeff ==
                 IF machNumber > 800
                 THEN IF machNumber < 1200
                      THEN dragCoeff + (dragCoeff * ((25 * (machNumber - 800) * (machNumber - 800)) \div 10000)) \div 1000
                      ELSE dragCoeff + (dragCoeff * (1500000 \div Sqrt(machNumber * 1000))) \div 1000
                 ELSE dragCoeff
         IN  [dragForce |-> MulDiv(dynamicPressure * referenceArea, adjustedDragCoeff, 100),
              machNumber |-> machNumber,
              dynamicPressure |-> dynamicPressure,
              adjustedDragCoeff |-> adjustedDragCoeff]

getDragProperties(velocity, altitude, dragCoeff, referenceArea) ==
    DragInAtmosphere(velocity, dragCoeff, referenceArea, getAtmosphericProperties(altitude))

\* thrust in N, isp in s, massFlowRate in kg/s
EngineOutput(thrust, exhaustVelocity, nozzleEfficiency) ==
    [thrust |-> MulDiv(thrust, nozzleEfficiency, 1000),
     massFlowRate |-> thrust \div exhaustVelocity,
     exhaustVelocity |-> exhaustVelocity,
     nozzleEfficiency |-> nozzleEfficiency]

getPropulsionProperties(thrust, isp, altitude, isEngineOn) ==
    IF ~isEngineOn \/ thrust <= 0
    THEN [thrust |-> 0, massFlowRate |-> 0, exhaustVelocity |-> 0, nozzleEfficiency |-> 0]
    ELSE EngineOutput(thrust,
             ((isp * 1000 + (150 * isp * OneMinusExp(altitude, 10000)) \div 1000)
              * STANDARD_GRAVITY) \div 100000,
             Min(1000, 850 + (150 * OneMinusExp(altitude, 20000)) \div 1000))

\* the guidance as it would be if the pitch-over began one second earlier
getOptimalFlightPathEarlyPitch(time, altitude, velocity, targetAltitude, stage) ==
    IF time < Sec(7) THEN [angle |-> HalfPi, guidance |-> "VERTICAL_ASCENT"]
    ELSE IF time < Sec(15)
    THEN [angle |-> HalfPi - (HalfPi * (time - Sec(7))) \div (10 * Sec(7)),
          guidance |-> "PITCH_INITIATION"]
    ELSE [angle |-> (PI * 40) \div 100, guidance |-> "GRAVITY_TURN_S1"]

\* time in ticks; angle in micro-radians
getOptimalFlightPath(time, altitude, velocity, targetAltitude, stage) ==
    IF time < Sec(8) THEN [angle |-> HalfPi, guidance |-> "VERTICAL_ASCENT"]
    ELSE IF time < Sec(15)
    THEN [angle |-> HalfPi - (HalfPi * (time - Sec(8))) \div (10 * Sec(7)),
          guidance |-> "PITCH_INITIATION"]
    ELSE IF stage = 1
    THEN [angle |-> IF altitude < 10000 THEN (PI * 40) \div 100
                    ELSE IF altitude < 30000 THEN (PI * 35) \div 100
                    ELSE (PI * 25) \div 100,
          guidance |-> "GRAVITY_TURN_S1"]
    ELSE [angle |-> IF altitude < 80000 THEN (PI * 20) \div 100
                    ELSE IF altitude < 150000 THEN (PI * 10) \div 100
                    ELSE (PI * 5) \div 100,
          guidance |-> "HORIZONTAL_INSERTION_S2"]


----------------------------------------------------------------------------
(* State vector and RK4 integration (useSimulation.ts) *)

ZeroDerivative ==
    [dx |-> 0, dy |-> 0, dz |-> 0, dvx |-> 0, dvy |-> 0, dvz |-> 0,
     dMass |-> 0, dFlightPathAngle |-> 0, dHeading |-> 0,
     gravityEvaluated |-> FALSE, gravityAltitude |-> 0]

\* the accelerations and rates of calculateEnhancedDerivatives from the
\* environment at the state
NetDerivatives(s, speed, gravity, propulsion, drag, guidance) ==
    LET thrustForce == propulsion.thrust
        dragForce == drag.dragForce
        sinAngle == Sin(s.flightPathAngle)
        cosAngle == Cos(s.flightPathAngle)
        thrustAccelX == MulDiv(thrustForce \div s.mass, cosAngle, 1000)
        thrustAccelY == MulDiv(thrustForce \div s.mass, sinAngle, 1000)
        dragAccelX == IF speed > 0 THEN -MulDiv(dragForce \div s.mass, s.vx, speed) ELSE 0
        dragAccelY == IF speed > 0 THEN -MulDiv(dragForce \div s.mass, s.vy, speed) ELSE 0
        gravityAccelY == -gravity.magnitude
        angleError == guidance.angle - s.flightPathAngle
    IN  [dx |-> s.vx, dy |-> s.vy, dz |-> 0,
         dvx |-> thrustAccelX + dragAccelX,
         dvy |-> thrustAccelY + dragAccelY + gravityAccelY,
         dvz |-> 0,
         dMass |-> -propulsion.massFlowRate,
         dFlightPathAngle |-> Sign(angleError) * Min(Abs(angleError) \div 10, 20000),
         dHeading |-> 0,
         gravityEvaluated |-> TRUE, gravityAltitude |-> s.y]

DerivativesAtSpeed(s, speed, thrust, isp, dragCoeff, referenceArea, isEngineOn, stage, targetAltitude) ==
    NetDerivatives(s, speed,
        getGravityVector(s.y),
        getPropulsionProperties(thrust, isp, s.y, isEngineOn),
        getDragProperties(speed, s.y, dragCoeff, referenceArea),
        getOptimalFlightPath(s.time, s.y, speed, targetAltitude, stage))

\* gravityAltitude records the altitude handed to getGravityVector
calculateEnhancedDerivatives(s, thrust, isp, dragCoeff, referenceArea, isEngineOn, stage, targetAltitude) ==
    IF s.mass <= MassFloor \/ s.y < -1000 THEN ZeroDerivative
    ELSE DerivativesAtSpeed(s, Sqrt(s.vx * s.vx + s.vy * s.vy), thrust, isp, dragCoeff,
                            referenceArea, isEngineOn, stage, targetAltitude)

\* 0.5 * dt * k, dt * k and (dt / 6) * k for dt in ticks
HalfDt(dt, k) == (dt * k) \div (2 * TicksPerSecond)

FullDt(dt, k) == (dt * k) \div TicksPerSecond

SixthDt(dt, k) == (dt * k) \div (6 * TicksPerSecond)

\* state2 / state3 (h = HalfDt, dtime = dt / 2) and state4 (h = FullDt)
HalfStage(s, dt, k) ==
    [x |-> s.x + HalfDt(dt, k.dx), y |-> s.y + HalfDt(dt, k.dy), z |-> s.z + HalfDt(dt, k.dz),
     vx |-> s.vx + HalfDt(dt, k.dvx), vy |-> s.vy + HalfDt(dt, k.dvy), vz |-> s.vz + HalfDt(dt, k.dvz),
     mass |-> Max(s.mass + HalfDt(dt, k.dMass), MassFloor),
     flightPathAngle |-> s.flightPathAngle + HalfDt(dt, k.dFlightPathAngle),
     heading |-> s.heading + HalfDt(dt, k.dHeading),
     time |-> s.time + dt \div 2]

FullStage(s, dt, k) ==
    [x |-> s.x + FullDt(dt, k.dx), y |-> s.y + FullDt(dt, k.dy), z |-> s.z + FullDt(dt, k.dz),
     vx |-> s.vx + FullDt(dt, k.dvx), vy |-> s.vy + FullDt(dt, k.dvy), vz |-> s.vz + FullDt(dt, k.dvz),
     mass |-> Max(s.mass + FullDt(dt, k.dMass), MassFloor),
     flightPathAngle |-> s.flightPathAngle + FullDt(dt, k.dFlightPathAngle),
     heading |-> s.heading + FullDt(dt, k.dHeading),
     time |-> s.time + dt]

\* the combination as it would be without Math.max(0, ...) on y
CombineWithoutAltitudeFloor(s, dt, k1, k2, k3, k4) ==
    [x |-> s.x + SixthDt(dt, k1.dx + 2 * k2.dx + 2 * k3.dx + k4.dx),
     y |-> s.y + SixthDt(dt, k1.dy + 2 * k2.dy + 2 * k3.dy + k4.dy),
     z |-> s.z + SixthDt(dt, k1.dz + 2 * k2.dz + 2 * k3.dz + k4.dz),
     vx |-> s.vx + SixthDt(dt, k1.dvx + 2 * k2.dvx + 2 * k3.dvx + k4.dvx),
     vy |-> s.vy + SixthDt(dt, k1.dvy + 2 * k2.dvy + 2 * k3.dvy + k4.dvy),
     vz |-> s.vz + SixthDt(dt, k1.dvz + 2 * k2.dvz + 2 * k3.dvz + k4.dvz),
     mass |-> Max(MassFloor, s.mass + SixthDt(dt, k1.dMass + 2 * k2.dMass + 2 * k3.dMass + k4.dMass)),
     flightPathAngle |-> Max(-HalfPi, Min(HalfPi, s.flightPathAngle
                            + SixthDt(dt, k1.dFlightPathAngle + 2 * k2.dFlightPathAngle
                                          + 2 * k3.dFlightPathAngle + k4.dFlightPathAngle))),
     heading |-> s.heading + SixthDt(dt, k1.dHeading + 2 * k2.dHeading + 2 * k3.dHeading + k4.dHeading),
     time |-> s.time + dt]

\* the final RK4 combination with its clamps
Combine(s, dt, k1, k2, k3, k4) ==
    [x |-> s.x + SixthDt(dt, k1.dx + 2 * k2.dx + 2 * k3.dx + k4.dx),
     y |-> Max(0, s.y + SixthDt(dt, k1.dy + 2 * k2.dy + 2 * k3.dy + k4.dy)),
     z |-> s.z + SixthDt(dt, k1.dz + 2 * k2.dz + 2 * k3.dz + k4.dz),
     vx |-> s.vx + SixthDt(dt, k1.dvx + 2 * k2.dvx + 2 * k3.dvx + k4.dvx),
     vy |-> s.vy + SixthDt(dt, k1.dvy + 2 * k2.dvy + 2 * k3.dvy + k4.dvy),
     vz |-> s.vz + SixthDt(dt, k1.dvz + 2 * k2.dvz + 2 * k3.dvz + k4.dvz),
     mass |-> Max(MassFloor, s.mass + SixthDt(dt, k1.dMass + 2 * k2.dMass + 2 * k3.dMass + k4.dMass)),
     flightPathAngle |-> Max(-HalfPi, Min(HalfPi, s.flightPathAngle
                            + SixthDt(dt, k1.dFlightPathAngle + 2 * k2.dFlightPathAngle
                                          + 2 * k3.dFlightPathAngle + k4.dFlightPathAngle))),
     heading |-> s.heading + SixthDt(dt, k1.dHeading + 2 * k2.dHeading + 2 * k3.dHeading + k4.dHeading),
     time |-> s.time + dt]

\* k4 from state4 = state + dt * k3, then the combination
StepFromK3(s, dt, k1, k2, k3, thrust, isp, dragCoeff, referenceArea, isEngineOn, stage, targetAltitude) ==
    Combine(s, dt, k1, k2, k3,
        calculateEnhancedDerivatives(FullStage(s, dt, k3), thrust, isp, dragCoeff,
                                     referenceArea, isEngineOn, stage, targetAltitude))

\* k3 from state3 = state + 0.5 * dt * k2
StepFromK2(s, dt, k1, k2, thrust, isp, dragCoeff, referenceArea, isEngineOn, stage, targetAltitude) ==
    StepFromK3(s, dt, k1, k2,
        calculateEnhancedDerivatives(HalfStage(s, dt, k2), thrust, isp, dragCoeff,
                                     referenceArea, isEngineOn, stage, targetAltitude),
        thrust, isp, dragCoeff, referenceArea, isEngineOn, stage, targetAltitude)

\* k2 from state2 = state + 0.5 * dt * k1
StepFromK1(s, dt, k1, thrust, isp, dragCoeff, referenceArea, isEngineOn, stage, targetAltitude) ==
    StepFromK2(s, dt, k1,
        calculateEnhancedDerivatives(HalfStage(s, dt, k1), thrust, isp, dragCoeff,
                                     referenceArea, isEngineOn, stage, targetAltitude),
        thrust, isp, dragCoeff, referenceArea, isEngineOn, stage, targetAltitude)

enhancedRK4Step(s, dt, thrust, isp, dragCoeff, referenceArea, isEngineOn, stage, targetAltitude) ==
    StepFromK1(s, dt,
        calculateEnhancedDerivatives(s, thrust, isp, dragCoeff, referenceArea,
                                     isEngineOn, stage, targetAltitude),
        thrust, isp, dragCoeff, referenceArea, isEngineOn, stage, targetAltitude)

----------------
(* Inputs.  Burn times are in ticks; dragCoefficient in hundredths. *)

MaxRuns == 2

MaxBurn1 == 3

MaxBurn2 == 3

\* mass, stageSeparationMass, stage1Thrust, stage2Thrust, stage1ISP,
\* stage2ISP, dragCoefficient, orbitHeight (km)
Vehicles ==
    { <<6000, 2000, 240000, 60000, 282, 421, 30, 400>>,  \* flies
      <<500, 100, 240000, 60000, 282, 421, 30, 400>>,    \* lighter than the mass floor
      <<1000, 1000, 240000, 60000, 282, 421, 30, 400>>,  \* separation mass = mass
      <<6000, 2000, 0, 0, 282, 421, 0, 400>>,            \* no thrust, no drag
      <<6000, 5500, 240000, 60000, 10, 10, 30, 0>>,      \* burns past the separation mass
      <<1500, 1200, 240000, 60000, 10, 421, 30, 400>> }  \* burns down to the mass floor

LaunchParameters(v, b1, b2) ==
    [orbitHeight |-> v[8],
     mass |-> v[1], stageSeparationMass |-> v[2], dragCoefficient |-> v[7],
     stage1BurnTime |-> b1, stage1Thrust |-> v[3], stage1ISP |-> v[5],
     stage2BurnTime |-> b2, stage2Thrust |-> v[4], stage2ISP |-> v[6]]

Inputs ==
    { LaunchParameters(v, b1, b2) : v \in Vehicles, b1 \in 0..MaxBurn1, b2 \in {0, MaxBurn2} }

----------------------------------------------------------------------------
(* runSimulation (useSimulation.ts) *)

\* const dt = 0.25, in ticks
dt == 2

\* const maxSimulationTime = 1200 (s)
maxSimulationTime == 1200

\* coastEndTime = state.time + 120 (s)
CoastSeconds == 120

referenceArea == 15

targetAltitude(p) == p.orbitHeight * 1000

requiredOrbitalVelocity(p) ==
    Sqrt(((GM * 1000) \div ((EARTH_RADIUS + targetAltitude(p)) \div 1000)) * 1000)

effectiveRequiredVelocity(p) == requiredOrbitalVelocity(p) - earthRotationBonus

\* the initial state as it would be with the rotation bonus as vertical velocity
InitialStateWithVerticalBonus(p) ==
    [x |-> 0, y |-> 0, z |-> 0, vx |-> 0, vy |-> earthRotationBonus, vz |-> 0,
     mass |-> p.mass, flightPathAngle |-> HalfPi, heading |-> HalfPi, time |-> 0]

InitialState(p) ==
    [x |-> 0, y |-> 0, z |-> 0,
     vx |-> earthRotationBonus, vy |-> 0, vz |-> 0,
     mass |-> p.mass,
     flightPathAngle |-> HalfPi,
     heading |-> HalfPi,
     time |-> 0]

\* parseFloat(state.time.toFixed(3)): the time in whole milliseconds
ToFixed3(time) == time * MillisPerTick

\* a TrajectoryPoint from the state and the forces on it
TrajectoryPoint(s, speed, thrustForce, gravity, drag, stage) ==
    [time |-> ToFixed3(s.time), altitude |-> s.y, velocity |-> speed,
     acceleration |-> thrustForce \div s.mass - gravity.magnitude - drag.dragForce \div s.mass,
     thrust |-> thrustForce, mass |-> s.mass,
     x |-> s.x, y |-> s.y, z |-> s.z, stage |-> stage]

PointAtSpeed(s, speed, p, thrust, isp, isEngineOn, stage) ==
    TrajectoryPoint(s, speed,
        getPropulsionProperties(thrust, isp, s.y, isEngineOn).thrust,
        getGravityVector(s.y),
        getDragProperties(speed, s.y, p.dragCoefficient, referenceArea),
        stage)

\* the TrajectoryPoint pushed by a burn loop
BurnPoint(s, p, thrust, isp, stage) ==
    PointAtSpeed(s, Sqrt(s.vx * s.vx + s.vy * s.vy), p, thrust, isp, TRUE, stage)

\* the TrajectoryPoint pushed by the coast loop (thrust: 0)
CoastPoint(s, p) ==
    PointAtSpeed(s, Sqrt(s.vx * s.vx + s.vy * s.vy), p, 0, p.stage2ISP, FALSE, 2)

Stage1Guard ==
    /\ state.time < params.stage1BurnTime
    /\ state.y >= 0
    /\ state.time < Sec(maxSimulationTime)

Stage2Guard ==
    /\ state.time < phaseEndTime
    /\ state.y >= 0
    /\ state.time < Sec(maxSimulationTime)

CoastGuard ==
    /\ state.time < phaseEndTime
    /\ state.y >= 0

\* setIsRunning(true); setSimulation(null); setError(null); then the await
RunSimulation ==
    /\ pc = "idle"
    /\ runs < MaxRuns
    /\ isRunning' = TRUE
    /\ simulation' = NULL
    /\ error' = NULL
    /\ previous' = IF simulation.status = "null" THEN previous
                   ELSE [settled |-> TRUE, trajectoryData |-> simulation.trajectoryData]
    /\ runs' = runs + 1
    /\ now' = now + 1
    /\ pc' = "delay"
    /\ UNCHANGED <<pending, params, state, trajectoryData, separationTime, separationAltitude,
                   phaseEndTime, stepCount>>

\* the run as it would be if the flight state were kept across calls
StartRunWithStaleState ==
    /\ pc = "delay"
    /\ trajectoryData' = << >>
    /\ separationTime' = 0
    /\ separationAltitude' = 0
    /\ phaseEndTime' = 0
    /\ stepCount' = 0
    /\ now' = now + 1
    /\ pc' = "stage1"
    /\ UNCHANGED <<pending, params, state, simulation, isRunning, error, runs, previous>>

\* the timeout resolves: the run's locals are initialised
StartRun ==
    /\ pc = "delay"
    /\ state' = InitialState(params)
    /\ trajectoryData' = << >>
    /\ separationTime' = 0
    /\ separationAltitude' = 0
    /\ phaseEndTime' = 0
    /\ stepCount' = 0
    /\ now' = now + 1
    /\ pc' = "stage1"
    /\ UNCHANGED <<pending, params, simulation, isRunning, error, runs, previous>>

Stage1Step ==
    /\ pc = "stage1"
    /\ Stage1Guard
    /\ trajectoryData' = Append(trajectoryData,
           BurnPoint(state, params, params.stage1Thrust, params.stage1ISP, 1))
    /\ state' = enhancedRK4Step(state, dt, params.stage1Thrust, params.stage1ISP,
                                params.dragCoefficient, referenceArea, TRUE, 1,
                                targetAltitude(params))
    /\ UNCHANGED <<pending, params, pc, separationTime, separationAltitude, phaseEndTime,
                   stepCount, simulation, isRunning, error, now, runs, previous>>

\* stage separation, and stage2EndTime
\* the separation as it would be if the separation point were not recorded
SeparationWithoutRecord ==
    /\ pc = "stage1"
    /\ ~Stage1Guard
    /\ state' = [state EXCEPT !.mass = params.stageSeparationMass]
    /\ phaseEndTime' = state.time + params.stage2BurnTime
    /\ pc' = "stage2"
    /\ UNCHANGED <<pending, params, trajectoryData, separationTime, separationAltitude,
                   stepCount, simulation, isRunning, error, now, runs, previous>>

Separation ==
    /\ pc = "stage1"
    /\ ~Stage1Guard
    /\ separationTime' = state.time
    /\ separationAltitude' = state.y
    /\ state' = [state EXCEPT !.mass = params.stageSeparationMass]
    /\ phaseEndTime' = state.time + params.stage2BurnTime
    /\ pc' = "stage2"
    /\ UNCHANGED <<pending, params, trajectoryData, stepCount, simulation, isRunning, error,
                   now, runs, previous>>

Stage2Step ==
    /\ pc = "stage2"
    /\ Stage2Guard
    /\ trajectoryData' = Append(trajectoryData,
           BurnPoint(state, params, params.stage2Thrust, params.stage2ISP, 2))
    /\ state' = enhancedRK4Step(state, dt, params.stage2Thrust, params.stage2ISP,
                                params.dragCoefficient, referenceArea, TRUE, 2,
                                targetAltitude(params))
    /\ UNCHANGED <<pending, params, pc, separationTime, separationAltitude, phaseEndTime,
                   stepCount, simulation, isRunning, error, now, runs, previous>>

\* the stage-2 loop ends: coastEndTime
CoastStart ==
    /\ pc = "stage2"
    /\ ~Stage2Guard
    /\ phaseEndTime' = state.time + Sec(CoastSeconds)
    /\ pc' = "coast"
    /\ UNCHANGED <<pending, params, state, trajectoryData, separationTime, separationAltitude,
                   stepCount, simulation, isRunning, error, now, runs, previous>>

CoastStep ==
    /\ pc = "coast"
    /\ CoastGuard
    /\ trajectoryData' = Append(trajectoryData, CoastPoint(state, params))
    /\ state' = enhancedRK4Step(state, dt, 0, params.stage2ISP,
                                params.dragCoefficient, referenceArea, FALSE, 2,
                                targetAltitude(params))
    /\ UNCHANGED <<pending, params, pc, separationTime, separationAltitude, phaseEndTime,
                   stepCount, simulation, isRunning, error, now, runs, previous>>

\* the callback of the reduce: point.altitude > max.altitude ? point : max,
\* on indices (max is the earlier one, point the later one)
HigherPoint(t, max, point) ==
    IF t[point].altitude > t[max].altitude THEN point ELSE max

\* the reduce over t[lo..hi].  The callback keeps the earlier of two points
\* of equal altitude and is associative, so the fold is evaluated by halves
\* to keep the depth of the evaluation logarithmic in the length.
RECURSIVE ReduceMax(_, _, _)
ReduceMax(t, lo, hi) ==
    IF lo = hi THEN lo
    ELSE HigherPoint(t, ReduceMax(t, lo, (lo + hi) \div 2),
                        ReduceMax(t, (lo + hi) \div 2 + 1, hi))

\* the result of the reduce if it kept its last element
LastPoint(t) == t[Len(t)]

\* trajectoryData.reduce((max, point) => point.altitude > max.altitude ? point : max)
MaxAltitudePoint(t) == t[ReduceMax(t, 1, Len(t))]

IsStage1(pt) == pt.stage = 1

\* the stage-2 filter as it would be if it kept only the burn samples
IsStage2UnderThrust(pt) == pt.stage = 2 /\ pt.thrust > 0

IsStage2(pt) == pt.stage = 2

PlotPoint(pt) == [time |-> pt.time, value |-> pt.altitude]

MapPlot(t) == [i \in 1..Len(t) |-> PlotPoint(t[i])]

\* plots, optimalParams and result
SimulationResult(p, s, t, sepTime, sepAltitude, id) ==
    [id |-> id,
     status |-> "completed",
     trajectoryData |-> t,
     stage1TrajectoryData |-> SelectSeq(t, IsStage1),
     stage2TrajectoryData |-> SelectSeq(t, IsStage2),
     plots |-> [stage1Trajectory |-> MapPlot(SelectSeq(t, IsStage1)),
                stage2Trajectory |-> MapPlot(SelectSeq(t, IsStage2))],
     optimalParams |->
        [requiredVelocity |-> effectiveRequiredVelocity(p),
         stage1OptimalBurnTime |-> p.stage1BurnTime,
         stage2OptimalBurnTime |-> p.stage2BurnTime,
         maxAltitude |-> MaxAltitudePoint(t).altitude,
         totalFlightTime |-> s.time,
         stageSeparationTime |-> sepTime,
         stageSeparationAltitude |-> sepAltitude]]

\* the coast loop ends: final analysis, setSimulation(result), finally
Finish ==
    /\ pc = "coast"
    /\ ~CoastGuard
    /\ simulation' = SimulationResult(params, state, trajectoryData, separationTime,
                                      separationAltitude, now)
    /\ isRunning' = FALSE
    /\ now' = now + 1
    /\ pc' = "idle"
    /\ UNCHANGED <<pending, params, state, trajectoryData, separationTime, separationAltitude,
                   phaseEndTime, stepCount, error, runs, previous>>

Init ==
    /\ params \in Inputs
    /\ pc = "idle"
    /\ state = InitialState(params)
    /\ trajectoryData = << >>
    /\ separationTime = 0
    /\ separationAltitude = 0
    /\ phaseEndTime = 0
    /\ stepCount = 0
    /\ simulation = NULL
    /\ isRunning = FALSE
    /\ error = NULL
    /\ now = 0
    /\ runs = 0
    /\ previous = [settled |-> FALSE, trajectoryData |-> << >>]
    /\ pending = << >>

Next ==
    \/ RunSimulation
    \/ StartRun
    \/ Stage1Step
    \/ Separation
    \/ Stage2Step
    \/ CoastStart
    \/ CoastStep
    \/ Finish

Spec == Init /\ [][Next]_vars

----------------
(* The same hook late in a stage-1 burn that reaches maxSimulationTime. *)

\* a stage-1 burn of maxSimulationTime, and one that ends 1 s before it, of a
\* vehicle whose separation mass is below the integrator's floor
LongLaunches ==
    { LaunchParameters(<<500, 100, 240000, 60000, 282, 421, 30, 400>>, b1, MaxBurn2) :
        b1 \in {Sec(maxSimulationTime), Sec(maxSimulationTime - 1)} }

\* the state after the first stage-1 pass
FirstStepState(p) ==
    enhancedRK4Step(InitialState(p), dt, p.stage1Thrust, p.stage1ISP,
                    p.dragCoefficient, referenceArea, TRUE, 1, targetAltitude(p))

\* the state after n stage-1 passes of a vehicle at the mass floor on the
\* pad: calculateEnhancedDerivatives returns zero derivatives for
\* mass <= 1000, so a pass changes only the time
StateAfterPasses(p, n) ==
    IF n = 0 THEN InitialState(p)
    ELSE [FirstStepState(p) EXCEPT !.time = n * dt]

\* the samples pushed by those n passes
SamplesOfPasses(p, n) ==
    [i \in 1..n |->
        BurnPoint(StateAfterPasses(p, i - 1), p, p.stage1Thrust, p.stage1ISP, 1)]

\* the passes made two steps before the stage-1 burn ends
LatePasses(p) == (p.stage1BurnTime \div dt) - 2

InitLong ==
    /\ params \in LongLaunches
    /\ pc = "stage1"
    /\ state = StateAfterPasses(params, LatePasses(params))
    /\ trajectoryData = SamplesOfPasses(params, LatePasses(params))
    /\ separationTime = 0
    /\ separationAltitude = 0
    /\ phaseEndTime = 0
    /\ stepCount = 0
    /\ simulation = NULL
    /\ isRunning = TRUE
    /\ error = NULL
    /\ now = 2
    /\ runs = 1
    /\ previous = [settled |-> FALSE, trajectoryData |-> << >>]
    /\ pending = << >>

SpecLong == InitLong /\ [][Next]_vars

----------------
(* The hook under overlapping calls.  runSimulation has one suspension     *)
(* point, the await of the 500 ms timeout; everything after it runs to     *)
(* completion before another callback starts, and the timeouts, all of the *)
(* same delay, resolve in the order of the calls.  The three useState      *)
(* cells are shared by all calls.                                          *)

\* an argument that is not a LaunchParameters object (params undefined)
Undefined == [status |-> "undefined"]

IsLaunchParameters(a) == "orbitHeight" \in DOMAIN a

\* err.message of the TypeError thrown by the destructuring of params
ErrorMessage == [status |-> "error", message |-> "TypeError"]

HookLaunches ==
    { LaunchParameters(v, MaxBurn1, MaxBurn2) : v \in {w \in Vehicles : w[1] = 6000 /\ w[2] = 2000} }

HookArguments == HookLaunches \cup {Undefined}

\* a call: setIsRunning(true); setSimulation(null); setError(null); await
CallRunSimulation ==
    /\ pc = "idle"
    /\ runs < MaxRuns
    /\ \E a \in HookArguments : pending' = Append(pending, a)
    /\ isRunning' = TRUE
    /\ simulation' = NULL
    /\ error' = NULL
    /\ runs' = runs + 1
    /\ now' = now + 1
    /\ UNCHANGED <<params, pc, state, trajectoryData, separationTime, separationAltitude,
                   phaseEndTime, stepCount, previous>>

\* the oldest timeout resolves and the body throws: catch, then finally
TimeoutThrow ==
    /\ pc = "idle"
    /\ pending # << >>
    /\ ~IsLaunchParameters(Head(pending))
    /\ pending' = Tail(pending)
    /\ error' = ErrorMessage
    /\ isRunning' = FALSE
    /\ now' = now + 1
    /\ UNCHANGED <<params, pc, state, trajectoryData, separationTime, separationAltitude,
                   phaseEndTime, stepCount, simulation, runs, previous>>

\* the oldest timeout resolves: the run's locals are initialised
TimeoutStart ==
    /\ pc = "idle"
    /\ pending # << >>
    /\ IsLaunchParameters(Head(pending))
    /\ pending' = Tail(pending)
    /\ params' = Head(pending)
    /\ state' = InitialState(Head(pending))
    /\ trajectoryData' = << >>
    /\ separationTime' = 0
    /\ separationAltitude' = 0
    /\ phaseEndTime' = 0
    /\ stepCount' = 0
    /\ now' = now + 1
    /\ pc' = "stage1"
    /\ UNCHANGED <<simulation, isRunning, error, runs, previous>>

InitHook ==
    /\ Init
    /\ params \in HookLaunches

NextHook ==
    \/ CallRunSimulation
    \/ TimeoutThrow
    \/ TimeoutStart
    \/ Stage1Step
    \/ Separation
    \/ Stage2Step
    \/ CoastStart
    \/ CoastStep
    \/ Finish

SpecHook == InitHook /\ [][NextHook]_vars

----------------------------------------------------------------------------
(* The hook with orbital insertion (part_006): dt = 0.5 s, per-phase step    *)
(* budgets, an insertion phase in place of the coast.  Atmosphere, gravity,  *)
(* drag, propulsion and the RK4 arithmetic are those above.                  *)

\* const dt = 0.5, in ticks
dtOrb == 4

\* insertionEndTime = state.time + 300 (s)
InsertionSeconds == 300

\* the + 100 of maxSteps, maxSteps2, maxSteps3
StepMargin == 100

\* state.mass > 5000 of needsInsertionBurn
InsertionMinMass == 5000

\* velocityDeficit > 100 of needsInsertionBurn
InsertionMinDeficit == 100

\* Math.sqrt(G * EARTH_MASS / (EARTH_RADIUS + altitude))
OrbitalVelocity(altitude) ==
    Sqrt(((GM * 1000) \div ((EARTH_RADIUS + altitude) \div 1000)) * 1000)

\* the stage-2 branch of the guidance
Stage2TargetAngle(altitude, velocity, target, required) ==
    IF 10 * altitude < 3 * target THEN (PI * 25) \div 100
    ELSE IF 10 * altitude < 7 * target
    THEN (PI * 25) \div 100
         - MulDiv((PI * 15) \div 100, 10 * altitude - 3 * target, 4 * target)
    ELSE IF 10 * velocity < 8 * required THEN (PI * 8) \div 100
    ELSE (PI * 5) \div 100

getOptimalFlightPathOrb(time, altitude, velocity, target, stage, required) ==
    IF time < Sec(10) THEN [angle |-> HalfPi, guidance |-> "VERTICAL_ASCENT"]
    ELSE IF time < Sec(20)
    THEN [angle |-> HalfPi - (HalfPi * 15 * (time - Sec(10))) \div (100 * Sec(10)),
          guidance |-> "GRAVITY_TURN_START"]
    ELSE IF stage = 1
    THEN [angle |-> IF altitude < 20000 THEN (PI * 42) \div 100
                    ELSE IF altitude < 50000 THEN (PI * 35) \div 100
                    ELSE (PI * 28) \div 100,
          guidance |-> "ASCENT_PROFILE_S1"]
    ELSE [angle |-> Stage2TargetAngle(altitude, velocity, target, required),
          guidance |-> "ORBITAL_INSERTION_S2"]

\* the accelerations and rates, with the centrifugal term
NetDerivativesOrb(s, speed, gravity, propulsion, drag, guidance) ==
    LET thrustForce == propulsion.thrust
        dragForce == drag.dragForce
        sinAngle == Sin(s.flightPathAngle)
        cosAngle == Cos(s.flightPathAngle)
        thrustAccelX == MulDiv(thrustForce \div s.mass, cosAngle, 1000)
        thrustAccelY == MulDiv(thrustForce \div s.mass, sinAngle, 1000)
        dragAccelX == IF speed > 0 THEN -MulDiv(dragForce \div s.mass, s.vx, speed) ELSE 0
        dragAccelY == IF speed > 0 THEN -MulDiv(dragForce \div s.mass, s.vy, speed) ELSE 0
        gravityAccelY == -gravity.magnitude
        centrifugalAccelY == IF s.y > 50000 THEN (s.vx * s.vx) \div (EARTH_RADIUS + s.y) ELSE 0
        angleError == guidance.angle - s.flightPathAngle
    IN  [dx |-> s.vx, dy |-> s.vy, dz |-> 0,
         dvx |-> thrustAccelX + dragAccelX,
         dvy |-> thrustAccelY + dragAccelY + gravityAccelY + centrifugalAccelY,
         dvz |-> 0,
         dMass |-> -propulsion.massFlowRate,
         dFlightPathAngle |-> Sign(angleError) * Min((Abs(angleError) * 8) \div 100, 15000),
         dHeading |-> 0,
         gravityEvaluated |-> TRUE, gravityAltitude |-> s.y]

DerivativesAtSpeedOrb(s, speed, thrust, isp, dragCoeff, area, isEngineOn, stage, target, required) ==
    NetDerivativesOrb(s, speed,
        getGravityVector(s.y),
        getPropulsionProperties(thrust, isp, s.y, isEngineOn),
        getDragProperties(speed, s.y, dragCoeff, area),
        getOptimalFlightPathOrb(s.time, s.y, speed, target, stage, required))

calculateEnhancedDerivativesOrb(s, thrust, isp, dragCoeff, area, isEngineOn, stage, target, required) ==
    IF s.mass <= MassFloor \/ s.y < -1000 THEN ZeroDerivative
    ELSE DerivativesAtSpeedOrb(s, Sqrt(s.vx * s.vx + s.vy * s.vy), thrust, isp, dragCoeff,
                               area, isEngineOn, stage, target, required)

StepFromK3Orb(s, h, k1, k2, k3, thrust, isp, dragCoeff, area, isEngineOn, stage, target, required) ==
    Combine(s, h, k1, k2, k3,
        calculateEnhancedDerivativesOrb(FullStage(s, h, k3), thrust, isp, dragCoeff,
                                        area, isEngineOn, stage, target, required))

StepFromK2Orb(s, h, k1, k2, thrust, isp, dragCoeff, area, isEngineOn, stage, target, required) ==
    StepFromK3Orb(s, h, k1, k2,
        calculateEnhancedDerivativesOrb(HalfStage(s, h, k2), thrust, isp, dragCoeff,
                                        area, isEngineOn, stage, target, required),
        thrust, isp, dragCoeff, area, isEngineOn, stage, target, required)

StepFromK1Orb(s, h, k1, thrust, isp, dragCoeff, area, isEngineOn, stage, target, required) ==
    StepFromK2Orb(s, h, k1,
        calculateEnhancedDerivativesOrb(HalfStage(s, h, k1), thrust, isp, dragCoeff,
                                        area, isEngineOn, stage, target, required),
        thrust, isp, dragCoeff, area, isEngineOn, stage, target, required)

enhancedRK4StepOrb(s, h, thrust, isp, dragCoeff, area, isEngineOn, stage, target, required) ==
    StepFromK1Orb(s, h,
        calculateEnhancedDerivativesOrb(s, thrust, isp, dragCoeff, area, isEngineOn,
                                        stage, target, required),
        thrust, isp, dragCoeff, area, isEngineOn, stage, target, required)

\* the insertion test as it would be without its mass condition
needsInsertionBurnWithoutMassTest(s, target, required) ==
    /\ 10 * s.y >= 9 * target
    /\ required - Sqrt(s.vx * s.vx + s.vy * s.vy) > InsertionMinDeficit

needsInsertionBurn(s, target, required) ==
    /\ 10 * s.y >= 9 * target
    /\ required - Sqrt(s.vx * s.vx + s.vy * s.vy) > InsertionMinDeficit
    /\ s.mass > InsertionMinMass

\* rocketSpecs.stage2Thrust * 0.8
insertionThrust(p) == (p.stage2Thrust * 8) \div 10

\* rocketSpecs.stage2ISP * 1.1
insertionISP(p) == (p.stage2ISP * 11) \div 10

performOrbitalInsertion(s, target, required, h, p, area) ==
    IF needsInsertionBurn(s, target, required)
    THEN [newState |-> enhancedRK4StepOrb(s, h, insertionThrust(p), insertionISP(p),
                                          p.dragCoefficient, area, TRUE, 2, target, required),
          insertionBurn |-> TRUE]
    ELSE [newState |-> s, insertionBurn |-> FALSE]

\* Math.ceil(burnTime / dt) + 100
maxSteps(burnTime) == CeilDiv(burnTime, dtOrb) + StepMargin

\* Math.ceil(300 / dt) + 100
maxSteps3 == CeilDiv(Sec(InsertionSeconds), dtOrb) + StepMargin

Stage1GuardOrb ==
    /\ state.time < params.stage1BurnTime
    /\ state.y >= 0
    /\ stepCount < maxSteps(params.stage1BurnTime)

Stage2GuardOrb ==
    /\ state.time < phaseEndTime
    /\ state.y >= 0
    /\ stepCount < maxSteps(params.stage2BurnTime)

\* the insertion loop as it would be without its step budget
InsertionGuardWithoutBudget ==
    /\ state.time < phaseEndTime
    /\ state.y >= 0

InsertionGuard ==
    /\ state.time < phaseEndTime
    /\ state.y >= 0
    /\ stepCount < maxSteps3

\* speed >= currentOrbitalVelocity * 0.95 && state.position.y >= targetAltitude * 0.95
OrbitAchieved(speed, altitude, target) ==
    /\ 100 * speed >= 95 * OrbitalVelocity(altitude)
    /\ 100 * altitude >= 95 * target

\* the TrajectoryPoint pushed by the insertion loop: the state after the
\* insertion step, the speed before it
InsertionPoint(s, speed, insertionBurn, p) ==
    TrajectoryPoint(s, speed,
        IF insertionBurn THEN insertionThrust(p) ELSE 0,
        getGravityVector(s.y),
        getDragProperties(speed, s.y, p.dragCoefficient, referenceArea),
        2)

RunSimulationOrb ==
    /\ pc = "idle"
    /\ runs = 0
    /\ isRunning' = TRUE
    /\ simulation' = NULL
    /\ error' = NULL
    /\ runs' = runs + 1
    /\ now' = now + 1
    /\ pc' = "delay"
    /\ UNCHANGED <<pending, params, state, trajectoryData, separationTime, separationAltitude,
                   phaseEndTime, stepCount, previous>>

StartRunOrb ==
    /\ pc = "delay"
    /\ state' = InitialState(params)
    /\ trajectoryData' = << >>
    /\ separationTime' = 0
    /\ separationAltitude' = 0
    /\ phaseEndTime' = 0
    /\ stepCount' = 0
    /\ now' = now + 1
    /\ pc' = "stage1"
    /\ UNCHANGED <<pending, params, simulation, isRunning, error, runs, previous>>

Stage1StepOrb ==
    /\ pc = "stage1"
    /\ Stage1GuardOrb
    /\ trajectoryData' = Append(trajectoryData,
           BurnPoint(state, params, params.stage1Thrust, params.stage1ISP, 1))
    /\ state' = enhancedRK4StepOrb(state, dtOrb, params.stage1Thrust, params.stage1ISP,
                                   params.dragCoefficient, referenceArea, TRUE, 1,
                                   targetAltitude(params), effectiveRequiredVelocity(params))
    /\ stepCount' = stepCount + 1
    /\ UNCHANGED <<pending, params, pc, separationTime, separationAltitude, phaseEndTime,
                   simulation, isRunning, error, now, runs, previous>>

SeparationOrb ==
    /\ pc = "stage1"
    /\ ~Stage1GuardOrb
    /\ separationTime' = state.time
    /\ separationAltitude' = state.y
    /\ state' = [state EXCEPT !.mass = params.stageSeparationMass]
    /\ phaseEndTime' = state.time + params.stage2BurnTime
    /\ stepCount' = 0
    /\ pc' = "stage2"
    /\ UNCHANGED <<pending, params, trajectoryData, simulation, isRunning, error, now, runs,
                   previous>>

Stage2StepOrb ==
    /\ pc = "stage2"
    /\ Stage2GuardOrb
    /\ trajectoryData' = Append(trajectoryData,
           BurnPoint(state, params, params.stage2Thrust, params.stage2ISP, 2))
    /\ state' = enhancedRK4StepOrb(state, dtOrb, params.stage2Thrust, params.stage2ISP,
                                   params.dragCoefficient, referenceArea, TRUE, 2,
                                   targetAltitude(params), effectiveRequiredVelocity(params))
    /\ stepCount' = stepCount + 1
    /\ UNCHANGED <<pending, params, pc, separationTime, separationAltitude, phaseEndTime,
                   simulation, isRunning, error, now, runs, previous>>

\* the stage-2 loop ends: insertionEndTime, stepCount = 0
InsertionStart ==
    /\ pc = "stage2"
    /\ ~Stage2GuardOrb
    /\ phaseEndTime' = state.time + Sec(InsertionSeconds)
    /\ stepCount' = 0
    /\ pc' = "insertion"
    /\ UNCHANGED <<pending, params, state, trajectoryData, separationTime, separationAltitude,
                   simulation, isRunning, error, now, runs, previous>>

\* one pass of the insertion loop: the insertion step, then the sample, then
\* stepCount++, then the orbit test and its break
InsertionStep ==
    /\ pc = "insertion"
    /\ InsertionGuard
    /\ state' = performOrbitalInsertion(state, targetAltitude(params),
                    effectiveRequiredVelocity(params), dtOrb, params, referenceArea).newState
    /\ trajectoryData' = Append(trajectoryData,
           InsertionPoint(state', Sqrt(state.vx * state.vx + state.vy * state.vy),
               needsInsertionBurn(state, targetAltitude(params), effectiveRequiredVelocity(params)),
               params))
    /\ stepCount' = stepCount + 1
    /\ pc' = IF OrbitAchieved(Sqrt(state.vx * state.vx + state.vy * state.vy), state'.y,
                              targetAltitude(params))
             THEN "analysis" ELSE "insertion"
    /\ UNCHANGED <<pending, params, separationTime, separationAltitude, phaseEndTime,
                   simulation, isRunning, error, now, runs, previous>>

\* the insertion loop has ended (guard or break): result, setSimulation, finally
FinishOrb ==
    /\ pc \in {"insertion", "analysis"}
    /\ pc = "insertion" => ~InsertionGuard
    /\ simulation' = SimulationResult(params, state, trajectoryData, separationTime,
                                      separationAltitude, now)
    /\ isRunning' = FALSE
    /\ now' = now + 1
    /\ pc' = "idle"
    /\ UNCHANGED <<pending, params, state, trajectoryData, separationTime, separationAltitude,
                   phaseEndTime, stepCount, error, runs, previous>>

NextOrb ==
    \/ RunSimulationOrb
    \/ StartRunOrb
    \/ Stage1StepOrb
    \/ SeparationOrb
    \/ Stage2StepOrb
    \/ InsertionStart
    \/ InsertionStep
    \/ FinishOrb

SpecOrb == Init /\ [][NextOrb]_vars

----------------------------------------------------------------------------
(* One integrator step over IEEE-754 doubles with their non-finite values.   *)
(* A double is a finite number, NaN, or an infinity with its sign.  params   *)
(* holds the weighted sums (dt / 6) * (k1 + 2 k2 + 2 k3 + k4) of the step,   *)
(* state the state vector handed to the integrator and then its return.     *)

Fin(n) == [kind |-> "finite", v |-> n]

NaN == [kind |-> "NaN", v |-> 0]

PosInf == [kind |-> "Infinity", v |-> 1]

NegInf == [kind |-> "Infinity", v |-> -1]

isNaN(a) == a.kind = "NaN"

isFinite(a) == a.kind = "finite"

\* a + b
FAdd(a, b) ==
    IF isNaN(a) \/ isNaN(b) THEN NaN
    ELSE IF isFinite(a) /\ isFinite(b) THEN Fin(a.v + b.v)
    ELSE IF isFinite(a) THEN b
    ELSE IF isFinite(b) THEN a
    ELSE IF a.v = b.v THEN a ELSE NaN

\* a * b
FMul(a, b) ==
    IF isNaN(a) \/ isNaN(b) THEN NaN
    ELSE IF isFinite(a) /\ isFinite(b) THEN Fin(a.v * b.v)
    ELSE IF Sign(a.v) * Sign(b.v) = 0 THEN NaN
    ELSE IF Sign(a.v) * Sign(b.v) > 0 THEN PosInf ELSE NegInf

\* a >= b (false when either is NaN)
FGe(a, b) ==
    /\ ~isNaN(a) /\ ~isNaN(b)
    /\ IF isFinite(a) /\ isFinite(b) THEN a.v >= b.v
       ELSE IF isFinite(a) THEN b.v < 0
       ELSE IF isFinite(b) THEN a.v > 0
       ELSE a.v >= b.v

\* Math.max(a, b)
FMax(a, b) ==
    IF isNaN(a) \/ isNaN(b) THEN NaN ELSE IF FGe(a, b) THEN a ELSE b

\* Math.min(a, b)
FMin(a, b) ==
    IF isNaN(a) \/ isNaN(b) THEN NaN ELSE IF FGe(a, b) THEN b ELSE a

\* Math.sqrt(a)
FSqrt(a) ==
    IF isNaN(a) THEN NaN
    ELSE IF isFinite(a) THEN (IF a.v < 0 THEN NaN ELSE Fin(Sqrt(a.v)))
    ELSE IF a.v > 0 THEN PosInf ELSE NaN

\* the sums a step can compute
StepSums == { Fin(-300), Fin(2), PosInf, NegInf, NaN }

StepInputs ==
    { [dx |-> Fin(2), dy |-> dy, dvx |-> dvx, dvy |-> dvy, dMass |-> dMass,
       dFlightPathAngle |-> dAngle] :
        dy \in StepSums, dvx \in {Fin(2), PosInf}, dvy \in StepSums,
        dMass \in StepSums, dAngle \in StepSums }

\* a valid EnhancedStateVector in flight
FlightState ==
    [x |-> Fin(50), y |-> Fin(100), vx |-> Fin(408), vy |-> Fin(30),
     mass |-> Fin(2000), flightPathAngle |-> Fin(HalfPi), time |-> Fin(Sec(10))]

\* the same state as the StateVector of the basic integrator
BasicFlightState ==
    [altitude |-> Fin(100), velocity |-> Fin(30), mass |-> Fin(2000),
     downrange |-> Fin(50), flightPathAngle |-> Fin(HalfPi)]

\* newState of enhancedRK4Step, which is what it returns
enhancedNewState(s, k) ==
    [x |-> FAdd(s.x, k.dx),
     y |-> FMax(Fin(0), FAdd(s.y, k.dy)),
     vx |-> FAdd(s.vx, k.dvx),
     vy |-> FAdd(s.vy, k.dvy),
     mass |-> FMax(Fin(MassFloor), FAdd(s.mass, k.dMass)),
     flightPathAngle |-> FMax(Fin(-HalfPi), FMin(Fin(HalfPi),
                              FAdd(s.flightPathAngle, k.dFlightPathAngle))),
     time |-> FAdd(s.time, Fin(dt))]

\* newState of rk4Step
basicNewState(s, k) ==
    [altitude |-> FMax(Fin(0), FAdd(s.altitude, k.dy)),
     velocity |-> FAdd(s.velocity, k.dvy),
     mass |-> FMax(Fin(MassFloor), FAdd(s.mass, k.dMass)),
     downrange |-> FAdd(s.downrange, k.dx),
     flightPathAngle |-> FMax(Fin(-HalfPi), FMin(Fin(HalfPi),
                              FAdd(s.flightPathAngle, k.dFlightPathAngle)))]

\* rk4Step: input validation, newState, output validation
ValidatedReturn(s, newState) ==
    IF isNaN(newState.velocity) \/ isNaN(newState.altitude) \/ isNaN(newState.mass)
    THEN s ELSE newState

rk4Step(s, k) ==
    IF ~FGe(s.mass, Fin(1)) THEN s ELSE ValidatedReturn(s, basicNewState(s, k))

\* the sample the phase loop pushes from the state
FloatPoint(s) ==
    [altitude |-> s.y,
     velocity |-> FSqrt(FAdd(FMul(s.vx, s.vx), FMul(s.vy, s.vy))),
     mass |-> s.mass, x |-> s.x, y |-> s.y]

\* state = enhancedRK4Step(state, dt, ...)
EnhancedStepCall ==
    /\ pc = "enhancedRK4Step"
    /\ state' = enhancedNewState(state, params)
    /\ pc' = "loop test"
    /\ UNCHANGED <<pending, params, trajectoryData, separationTime, separationAltitude,
                   phaseEndTime, stepCount, simulation, isRunning, error, now, runs,
                   previous>>

\* the next pass of the phase loop: state.position.y >= 0, then the push
RecordAfterStep ==
    /\ pc = "loop test"
    /\ FGe(state.y, Fin(0))
    /\ trajectoryData' = Append(trajectoryData, FloatPoint(state))
    /\ pc' = "recorded"
    /\ UNCHANGED <<pending, params, state, separationTime, separationAltitude,
                   phaseEndTime, stepCount, simulation, isRunning, error, now, runs,
                   previous>>

\* state = rk4Step(state, time, dt, ...)
BasicStepCall ==
    /\ pc = "rk4Step"
    /\ state' = rk4Step(state, params)
    /\ pc' = "returned"
    /\ UNCHANGED <<pending, params, trajectoryData, separationTime, separationAltitude,
                   phaseEndTime, stepCount, simulation, isRunning, error, now, runs,
                   previous>>

InitStep ==
    /\ params \in StepInputs
    /\ pc \in {"enhancedRK4Step", "rk4Step"}
    /\ state = IF pc = "rk4Step" THEN BasicFlightState ELSE FlightState
    /\ trajectoryData = << >>
    /\ separationTime = 0
    /\ separationAltitude = 0
    /\ phaseEndTime = 0
    /\ stepCount = 0
    /\ simulation = NULL
    /\ isRunning = TRUE
    /\ error = NULL
    /\ now = 0
    /\ runs = 1
    /\ previous = [settled |-> FALSE, trajectoryData |-> << >>]
    /\ pending = << >>

NextStep ==
    \/ EnhancedStepCall
    \/ RecordAfterStep
    \/ BasicStepCall

SpecStep == InitStep /\ [][NextStep]_vars

----------------
(* The stage-1 loop of the basic hook (src/unnamed/part_007), over the same *)
(* doubles: its state vector has no time field, the controller keeps time   *)
(* and stepCount itself and advances both once per pass.                    *)

\* const dt = 0.5, in ticks
dtBasic == 4

\* passes of the stage-1 loop that are followed (the burn time in steps)
MaxPasses == 2

\* rocketSpecs.stageSeparationMass of the vehicle that BasicFlightState is a
\* state of
BasicSeparationMass == 1500

\* a < b (false when either is NaN)
FLt(a, b) == ~isNaN(a) /\ ~isNaN(b) /\ ~FGe(a, b)

\* time in ticks, the angle in micro-radians
getGravityTurnAngle(time, altitude, velocity) ==
    IF time < Sec(10) THEN Fin(HalfPi)
    ELSE IF time < Sec(50)
         THEN Fin(HalfPi - (3 * HalfPi * (time - Sec(10))) \div (10 * Sec(40)))
    ELSE IF FLt(altitude, Fin(30000)) THEN Fin(PI \div 3)
    ELSE IF FLt(altitude, Fin(60000)) THEN Fin(PI \div 4)
    ELSE IF FLt(altitude, Fin(100000)) THEN Fin(PI \div 6)
    ELSE Fin(PI \div 12)

\* state.flightPathAngle = getGravityTurnAngle(time, state.altitude, state.velocity)
GuidedState(s, time) ==
    [s EXCEPT !.flightPathAngle = getGravityTurnAngle(time, s.altitude, s.velocity)]

\* the sample the stage-1 loop pushes before the step
BasicPoint(s, time) ==
    [time |-> ToFixed3(time), altitude |-> FMax(Fin(0), s.altitude),
     velocity |-> s.velocity, mass |-> s.mass, x |-> s.downrange, y |-> s.altitude,
     stage |-> 1]

\* if (isNaN(newState.velocity) || ...) break; state = newState
AfterValidation(guided, newState) ==
    IF isNaN(newState.velocity) \/ isNaN(newState.altitude) \/ isNaN(newState.mass)
    THEN [state |-> guided, stepCount |-> 0, pc |-> "separation"]
    ELSE [state |-> newState, stepCount |-> 1, pc |-> "stage 1"]

\* one pass of the stage-1 loop
BasicStage1Pass ==
    /\ pc = "stage 1"
    /\ stepCount < MaxPasses
    /\ FGe(state.altitude, Fin(0))
    /\ trajectoryData' =
           Append(trajectoryData, BasicPoint(GuidedState(state, stepCount * dtBasic),
                                             stepCount * dtBasic))
    /\ state' = AfterValidation(GuidedState(state, stepCount * dtBasic),
                    rk4Step(GuidedState(state, stepCount * dtBasic), params)).state
    /\ stepCount' = stepCount +
                    AfterValidation(GuidedState(state, stepCount * dtBasic),
                        rk4Step(GuidedState(state, stepCount * dtBasic), params)).stepCount
    /\ pc' = AfterValidation(GuidedState(state, stepCount * dtBasic),
                 rk4Step(GuidedState(state, stepCount * dtBasic), params)).pc
    /\ UNCHANGED <<pending, params, separationTime, separationAltitude, phaseEndTime,
                   simulation, isRunning, error, now, runs, previous>>

\* the stage-1 loop ends: separationTime = time, separationAltitude, the mass
BasicSeparation ==
    /\ pc \in {"stage 1", "separation"}
    /\ pc = "stage 1" => ~(stepCount < MaxPasses /\ FGe(state.altitude, Fin(0)))
    /\ separationTime' = stepCount * dtBasic
    /\ separationAltitude' = state.altitude
    /\ state' = [state EXCEPT !.mass = Fin(BasicSeparationMass)]
    /\ pc' = "stage 2"
    /\ UNCHANGED <<pending, params, trajectoryData, phaseEndTime, stepCount, simulation,
                   isRunning, error, now, runs, previous>>

InitBasic ==
    /\ params \in StepInputs
    /\ pc = "stage 1"
    /\ state = BasicFlightState
    /\ trajectoryData = << >>
    /\ separationTime = 0
    /\ separationAltitude = 0
    /\ phaseEndTime = 0
    /\ stepCount = 0
    /\ simulation = NULL
    /\ isRunning = TRUE
    /\ error = NULL
    /\ now = 0
    /\ runs = 1
    /\ previous = [settled |-> FALSE, trajectoryData |-> << >>]
    /\ pending = << >>

NextBasic ==
    \/ BasicStage1Pass
    \/ BasicSeparation

SpecBasic == InitBasic /\ [][NextBasic]_vars

----------------
(* The atmosphere and drag functions on their own, at altitudes around     *)
(* every layer boundary, below the ground and around the Karman line.      *)

LayerBases == { ATMOSPHERIC_LAYERS[i].altitude : i \in 1..Len(ATMOSPHERIC_LAYERS) }

\* altitudes handed to the functions (m)
Altitudes ==
    UNION { {b - 1, b, b + 1, b + 2000} : b \in LayerBases \cup {KARMAN_LINE} }
    \cup {-1000}

\* speeds handed to getDragProperties (m/s)
Speeds == {0, 5, 300, 3000}

AtmosphereInputs ==
    { [altitude |-> a, velocity |-> v, dragCoeff |-> c] :
          a \in Altitudes, v \in Speeds, c \in {0, 30} }

\* const atm = getAtmosphericProperties(altitude)
AtmosphereCall ==
    /\ pc = "getAtmosphericProperties"
    /\ state' = getAtmosphericProperties(params.altitude)
    /\ pc' = "atmosphere"
    /\ UNCHANGED <<pending, params, trajectoryData, separationTime, separationAltitude,
                   phaseEndTime, stepCount, simulation, isRunning, error, now, runs,
                   previous>>

\* const drag = getDragProperties(speed, altitude, dragCoeff, referenceArea)
DragCall ==
    /\ pc = "getDragProperties"
    /\ state' = getDragProperties(params.velocity, params.altitude, params.dragCoeff,
                                  referenceArea)
    /\ pc' = "drag"
    /\ UNCHANGED <<pending, params, trajectoryData, separationTime, separationAltitude,
                   phaseEndTime, stepCount, simulation, isRunning, error, now, runs,
                   previous>>

InitAtmosphere ==
    /\ params \in AtmosphereInputs
    /\ pc \in {"getAtmosphericProperties", "getDragProperties"}
    /\ state = Vacuum
    /\ trajectoryData = << >>
    /\ separationTime = 0
    /\ separationAltitude = 0
    /\ phaseEndTime = 0
    /\ stepCount = 0
    /\ simulation = NULL
    /\ isRunning = TRUE
    /\ error = NULL
    /\ now = 0
    /\ runs = 1
    /\ previous = [settled |-> FALSE, trajectoryData |-> << >>]
    /\ pending = << >>

NextAtmosphere ==
    \/ AtmosphereCall
    \/ DragCall

SpecAtmosphere == InitAtmosphere /\ [][NextAtmosphere]_vars

----------------------------------------------------------------------------
(* Properties of the hook (Spec) *)

Completed == simulation.status = "completed"

\* the data-model invariants of a RocketSpecification
ValidSpecification(p) ==
    /\ p.mass > p.stageSeparationMass
    /\ p.stageSeparationMass > 0
    /\ p.stage1BurnTime > 0 /\ p.stage2BurnTime > 0
    /\ p.stage1Thrust > 0 /\ p.stage2Thrust > 0
    /\ p.stage1ISP > 0 /\ p.stage2ISP > 0

\* between two samples of one burn phase: both carry the same stage tag and
\* the later one was pushed by a burn loop (the coast loop pushes thrust: 0)
SameBurnPhase(a, b) == a.stage = b.stage /\ b.thrust > 0

\* C2: a specification that breaks a data-model invariant is refused before
\* any integration step: no sample is pushed, no SimulationResult is stored,
\* and the call settles with an error.
C2_InvalidSpecificationRefused ==
    ~ValidSpecification(params) =>
        /\ trajectoryData = << >>
        /\ simulation.status = "null"
        /\ (pc = "idle" /\ runs > 0 => error # NULL)

\* C3: in a completed run the stage tags are one non-empty block of 1s
\* followed by one non-empty block of 2s.
C3_StageBlocks ==
    Completed =>
        \E k \in 1..(Len(simulation.trajectoryData) - 1) :
            /\ \A i \in 1..k : simulation.trajectoryData[i].stage = 1
            /\ \A i \in (k + 1)..Len(simulation.trajectoryData) :
                   simulation.trajectoryData[i].stage = 2

\* C5: for a specification with mass > stageSeparationMass > 0 (and the other
\* data-model invariants), of two consecutive samples of one burn phase the
\* later never has the greater mass.
C5_MassNonIncreasingInBurn ==
    ValidSpecification(params) =>
        \A i \in 1..(Len(trajectoryData) - 1) :
            SameBurnPhase(trajectoryData[i], trajectoryData[i + 1]) =>
                trajectoryData[i + 1].mass <= trajectoryData[i].mass

\* C6: for a specification with mass > stageSeparationMass > 0 (and the other
\* data-model invariants), every recorded sample has mass >= the integrator's
\* mass floor.
C6_MassAtLeastFloor ==
    ValidSpecification(params) =>
        \A i \in 1..Len(trajectoryData) : trajectoryData[i].mass >= MassFloor

\* C7: every recorded sample has altitude >= 0, and the state the
\* integrator hands back to the controller has altitude >= 0, for every input.
C7_AltitudeNonNegative ==
    /\ state.y >= 0
    /\ \A i \in 1..Len(trajectoryData) : trajectoryData[i].altitude >= 0

\* C7 witness: the vehicle has come back down during the coast, the floor has
\* held its altitude at 0 while it still sinks, and the sample is recorded.
C7_Witness ==
    /\ pc = "coast"
    /\ Len(trajectoryData) > 2
    /\ state.y = 0 /\ state.vy < 0
    /\ trajectoryData[Len(trajectoryData)].altitude = 0
    /\ trajectoryData[Len(trajectoryData) - 1].altitude > 0

\* C9: a run with the LaunchParameters of the run before it stores the same
\* sample sequence.
C9_Deterministic ==
    (previous.settled /\ Completed) =>
        simulation.trajectoryData = previous.trajectoryData

\* C9 witness: the second run has settled, at a later clock reading, after a
\* first run that flew both stages.
C9_Witness ==
    /\ previous.settled /\ Completed
    /\ runs = 2
    /\ simulation.id > 3
    /\ Len(simulation.stage1TrajectoryData) > 1
    /\ Len(simulation.stage2TrajectoryData) > 1

----------------------------------------------------------------------------
(* Properties of the hook with orbital insertion (SpecOrb) *)

\* the sum of the three per-phase step budgets
SampleBudget(p) == maxSteps(p.stage1BurnTime) + maxSteps(p.stage2BurnTime) + maxSteps3

StrictlyIncreasingTimes(t) == \A i \in 1..(Len(t) - 1) : t[i].time < t[i + 1].time

\* the step budget of the loop the run is in
PhaseBudget ==
    IF pc = "stage1" THEN maxSteps(params.stage1BurnTime)
    ELSE IF pc = "stage2" THEN maxSteps(params.stage2BurnTime)
    ELSE maxSteps3

\* C1: for every LaunchParameters that satisfies the data-model invariants
\* the run is bounded: no loop makes more passes than its step budget, every
\* pass pushes one sample, and the number of samples pushed never exceeds the
\* sum of the three per-phase step budgets.
C1_TerminatesWithinBudget ==
    ValidSpecification(params) =>
        /\ stepCount <= PhaseBudget
        /\ stepCount <= Len(trajectoryData)
        /\ Len(trajectoryData) <= SampleBudget(params)

\* C1 witness: a valid specification's run has settled after the insertion
\* loop was stopped by its step budget.
C1_Witness ==
    /\ ValidSpecification(params)
    /\ pc = "idle" /\ Completed
    /\ stepCount = maxSteps3
    /\ Len(simulation.trajectoryData) > maxSteps3

\* C4: in a completed run the first sample tagged stage 2 carries exactly
\* rocketSpecs.stageSeparationMass.
C4_FirstStage2Mass ==
    Completed =>
        \A i \in 1..Len(simulation.trajectoryData) :
            (/\ simulation.trajectoryData[i].stage = 2
             /\ \A j \in 1..(i - 1) : simulation.trajectoryData[j].stage # 2)
            => simulation.trajectoryData[i].mass = params.stageSeparationMass

\* C8: the sample times of the trajectory are strictly increasing across all
\* phases, and the stored trajectory is the sequence as it was pushed; stated
\* for the specifications that satisfy the data-model invariants.
C8_AppendOnlyIncreasingTimes ==
    ValidSpecification(params) =>
        /\ StrictlyIncreasingTimes(trajectoryData)
        /\ (Completed => simulation.trajectoryData = trajectoryData)

----------------------------------------------------------------------------
(* Properties of one integrator step (SpecStep) *)

AllFinite(r) == \A f \in DOMAIN r : isFinite(r[f])

\* C10: a step whose new state has a non-finite component returns the state
\* it was given, so the state after a step and every pushed sample hold only
\* finite values.
C10_NonFiniteStepRejected ==
    /\ pc \in {"loop test", "recorded"} =>
          /\ AllFinite(state)
          /\ ~AllFinite(enhancedNewState(FlightState, params)) => state = FlightState
    /\ pc = "returned" =>
          /\ AllFinite(state)
          /\ ~AllFinite(basicNewState(BasicFlightState, params)) => state = BasicFlightState
    /\ \A i \in 1..Len(trajectoryData) : AllFinite(trajectoryData[i])



----------------
\* every call made so far has settled
AllSettled == runs > 0 /\ pending = << >> /\ pc = "idle"

\* C11: runSimulation never lets an exception escape; when the run throws,
\* the call settles with error set, simulation null and isRunning false; when
\* it succeeds, with simulation set, error null and isRunning false; so once
\* the calls have settled exactly one of simulation and error is non-null.
C11_ExactlyOneOutcome ==
    AllSettled =>
        /\ isRunning = FALSE
        /\ (simulation.status = "null") # (error.status = "null")

\* the insertion loop has been ended by its step budget, not by its time
\* limit, the ground or the break
BudgetExceeded ==
    /\ pc = "insertion"
    /\ stepCount >= maxSteps3
    /\ state.time < phaseEndTime
    /\ state.y >= 0

\* C12: a phase that stops because stepCount reached its budget is reported
\* distinctly from a clean completion: the call does not store the same
\* 'completed' result (stated for the specifications that satisfy the
\* data-model invariants).
C12_BudgetExceededReported ==
    [][(ValidSpecification(params) /\ BudgetExceeded) =>
           simulation'.status # "completed"]_vars

\* index of the first sample tagged stage 2
IsFirstStage2(t, i) ==
    /\ t[i].stage = 2
    /\ \A j \in 1..(i - 1) : t[j].stage # 2

LastSample(t) == t[Len(t)]

\* C14: in a completed run optimalParams.totalFlightTime equals the time of
\* the last recorded trajectory sample.
C14_TotalFlightTimeIsLastSampleTime ==
    Completed =>
        ToFixed3(simulation.optimalParams.totalFlightTime) =
            LastSample(simulation.trajectoryData).time

\* C15: in a completed run optimalParams.maxAltitude is the maximum altitude
\* over all recorded samples: at least every sample's altitude and equal to
\* the altitude of one of them.
C15_MaxAltitudeIsMaximum ==
    Completed =>
        /\ \A i \in 1..Len(simulation.trajectoryData) :
               simulation.trajectoryData[i].altitude <= simulation.optimalParams.maxAltitude
        /\ \E i \in 1..Len(simulation.trajectoryData) :
               simulation.trajectoryData[i].altitude = simulation.optimalParams.maxAltitude

\* C15 witness: a completed run whose greatest altitude is reached in
\* flight, above the altitude of its first and of its last sample.
C15_Witness ==
    /\ Completed
    /\ simulation.optimalParams.maxAltitude > simulation.trajectoryData[1].altitude
    /\ simulation.optimalParams.maxAltitude >
           simulation.trajectoryData[Len(simulation.trajectoryData)].altitude

\* both stages without thrust, and no drag
ZeroThrustNoDrag(p) ==
    /\ p.stage1Thrust = 0
    /\ p.stage2Thrust = 0
    /\ p.dragCoefficient = 0

AllOnGround(t) == \A i \in 1..Len(t) : t[i].altitude = 0

\* C16: with thrust 0 for both stages and drag coefficient 0 the vehicle
\* never leaves the ground: every sample has altitude exactly 0, no error
\* is raised and the run completes with a result.
C16_ZeroThrustStaysOnGround ==
    ZeroThrustNoDrag(params) =>
        /\ AllOnGround(trajectoryData)
        /\ state.y = 0
        /\ error.status = "null"
        /\ (pc = "idle" /\ runs > 0) =>
               (Completed /\ AllOnGround(simulation.trajectoryData))

\* C16 witness: a vehicle without thrust and drag has completed a run in
\* which gravity pulled it down (negative vertical velocity) through a
\* stage-1 pass, a stage-2 pass and the coast, all recorded at altitude 0.
C16_Witness ==
    /\ ZeroThrustNoDrag(params)
    /\ Completed
    /\ state.vy < 0
    /\ simulation.trajectoryData[1].stage = 1
    /\ Len(simulation.trajectoryData) > Sec(CoastSeconds) \div dt
    /\ simulation.optimalParams.maxAltitude = 0

\* C17: the stage-1 loop takes a step only while the mass is above
\* rocketSpecs.stageSeparationMass (besides its time and altitude tests), so
\* the mass just before the separation is never below stageSeparationMass
\* and the separation never increases the mass.  Stated for the
\* specifications that satisfy the data-model invariants.
C17_Stage1StopsAtSeparationMass ==
    [][(ValidSpecification(params) /\ pc = "stage1") =>
           /\ (pc' = "stage1" => state.mass > params.stageSeparationMass)
           /\ (pc' = "stage2" => /\ state.mass >= params.stageSeparationMass
                                 /\ state'.mass <= state.mass)]_vars

\* C18: the separation changes only the mass of the flight state, and
\* outside the separation the controller never writes a field of the flight
\* state itself: every other change of the state is the assignment of the
\* state the integrator returned for it.
C18_OnlyIntegratorWritesState ==
    [][/\ pc = "stage 1" /\ pc' = "stage 2" =>
              state' = [state EXCEPT !.mass = state'.mass]
       /\ pc = "stage 1" /\ pc' = "stage 1" =>
              state' = rk4Step(state, params)]_vars

\* C19: every pass of the insertion loop advances the flight state by one
\* integrator step of dt, with or without an insertion burn, so the elapsed
\* time grows by dt with every insertion sample.  Stated for the
\* specifications that satisfy the data-model invariants.
C19_InsertionPassAdvancesTime ==
    [][(/\ ValidSpecification(params)
        /\ pc = "insertion"
        /\ Len(trajectoryData') = Len(trajectoryData) + 1) =>
           state'.time = state.time + dtOrb]_vars

\* altitude >= 0.9 * targetAltitude, velocity deficit > 100, mass > 5000
InsertionCondition(s, p) ==
    /\ 10 * s.y >= 9 * targetAltitude(p)
    /\ effectiveRequiredVelocity(p) - Sqrt(s.vx * s.vx + s.vy * s.vy) > InsertionMinDeficit
    /\ s.mass > InsertionMinMass

\* the step of an insertion burn: engine on, stage 2, 0.8 * stage2Thrust,
\* 1.1 * stage2ISP
InsertionBurnStep(s, p) ==
    enhancedRK4StepOrb(s, dtOrb, (p.stage2Thrust * 8) \div 10, (p.stage2ISP * 11) \div 10,
                       p.dragCoefficient, referenceArea, TRUE, 2, targetAltitude(p),
                       effectiveRequiredVelocity(p))

\* what performOrbitalInsertion returns in a pass of the insertion loop
InsertionOf(s, p) ==
    performOrbitalInsertion(s, targetAltitude(p), effectiveRequiredVelocity(p), dtOrb, p,
                            referenceArea)

\* C20: performOrbitalInsertion reports insertionBurn = true, and applies
\* one integrator step with the engine on, stage 2, 0.8 * stage2Thrust and
\* 1.1 * stage2ISP, if and only if altitude >= 0.9 * targetAltitude and the
\* velocity deficit is > 100 and mass > 5000; otherwise it returns the state
\* it was given; after a burn step the mass is at least the 1000 kg floor.
C20_InsertionBurnIffCondition ==
    [][(pc = "insertion" /\ Len(trajectoryData') = Len(trajectoryData) + 1) =>
           /\ InsertionOf(state, params).insertionBurn <=> InsertionCondition(state, params)
           /\ state' = InsertionOf(state, params).newState
           /\ InsertionCondition(state, params) =>
                  /\ state' = InsertionBurnStep(state, params)
                  /\ state'.mass >= MassFloor
           /\ ~InsertionCondition(state, params) => state' = state]_vars

\* C20 witness: the insertion loop has just made a burn pass from a state
\* above the mass minimum (the sample carries the derated thrust, time has
\* advanced) and the mass is now at or below that minimum, so the next pass
\* makes no burn.
C20_Witness ==
    /\ pc = "insertion"
    /\ stepCount > 0
    /\ Len(trajectoryData) > 1
    /\ trajectoryData[Len(trajectoryData)].thrust > 0
    /\ trajectoryData[Len(trajectoryData)].time > trajectoryData[Len(trajectoryData) - 1].time
    /\ state.mass <= InsertionMinMass
    /\ state.mass >= MassFloor
    /\ ~InsertionOf(state, params).insertionBurn

\* -pi/2 <= a <= pi/2 (false for NaN)
AngleInRange(a) == FGe(a, Fin(-HalfPi)) /\ FGe(Fin(HalfPi), a)

PhaseArguments ==
    IF pc = "stage1"
    THEN [thrust |-> params.stage1Thrust, isp |-> params.stage1ISP, isEngineOn |-> TRUE, stage |-> 1]
    ELSE IF pc = "stage2"
    THEN [thrust |-> params.stage2Thrust, isp |-> params.stage2ISP, isEngineOn |-> TRUE, stage |-> 2]
    ELSE [thrust |-> 0, isp |-> params.stage2ISP, isEngineOn |-> FALSE, stage |-> 2]

\* the next pass of the loop of the phase at pc will call the integrator
StepPending ==
    \/ pc = "stage1" /\ Stage1Guard
    \/ pc = "stage2" /\ Stage2Guard
    \/ pc = "coast" /\ CoastGuard

\* calculateEnhancedDerivatives as that call evaluates it at s
DerivativesOfPhase(s, a) ==
    calculateEnhancedDerivatives(s, a.thrust, a.isp, params.dragCoefficient, referenceArea,
                                 a.isEngineOn, a.stage, targetAltitude(params))

K1OfPhase == DerivativesOfPhase(state, PhaseArguments)

K2OfPhase == DerivativesOfPhase(HalfStage(state, dt, K1OfPhase), PhaseArguments)

K3OfPhase == DerivativesOfPhase(HalfStage(state, dt, K2OfPhase), PhaseArguments)

K4OfPhase == DerivativesOfPhase(FullStage(state, dt, K3OfPhase), PhaseArguments)

GravityAboveGround(k) == k.gravityEvaluated => k.gravityAltitude >= 0

\* C22: every evaluation of the gravity model in a run, those at the three
\* intermediate RK4 states included, is made with an altitude >= 0.  Stated
\* for the specifications that satisfy the data-model invariants.
C22_GravityEvaluatedAboveGround ==
    (ValidSpecification(params) /\ StepPending) =>
        /\ GravityAboveGround(K1OfPhase)
        /\ GravityAboveGround(K2OfPhase)
        /\ GravityAboveGround(K3OfPhase)
        /\ GravityAboveGround(K4OfPhase)

\* C23: getDragProperties never divides by a zero speed of sound: when the
\* atmosphere is vacuum or the speed is below the threshold it returns
\* dragForce, machNumber and dynamicPressure 0; whenever it does compute a
\* Mach number the speed of sound is > 0; and at every altitude at or below
\* the Karman line the speed of sound is > 0.
C23_NoDivisionByZeroSoundSpeed ==
    /\ params.altitude <= KARMAN_LINE =>
           getAtmosphericProperties(params.altitude).soundSpeed > 0
    /\ pc = "drag" =>
           /\ (\/ getAtmosphericProperties(params.altitude).soundSpeed = 0
               \/ getAtmosphericProperties(params.altitude).density = 0
               \/ params.velocity = 0) =>
                  /\ state.dragForce = 0
                  /\ state.machNumber = 0
                  /\ state.dynamicPressure = 0
           /\ state.machNumber # 0 =>
                  getAtmosphericProperties(params.altitude).soundSpeed > 0

\* C23 witness: getDragProperties has returned zero drag for a moving vehicle
\* above the Karman line, where the speed of sound is 0.
C23_Witness ==
    /\ pc = "drag"
    /\ params.altitude > KARMAN_LINE
    /\ params.velocity > 0
    /\ params.dragCoeff > 0
    /\ getAtmosphericProperties(params.altitude).soundSpeed = 0
    /\ state.dragForce = 0
    /\ state.machNumber = 0

\* C24: during the coast phase (engine off) every integrator step leaves the
\* mass of the state unchanged, so all coast samples of a run carry the mass
\* of the state that entered the coast phase.
C24_CoastLeavesMassUnchanged ==
    [][(pc = "coast" /\ pc' = "coast") => state'.mass = state.mass]_vars

\* the second call of a long launch passes through the state the first is
\* taken up in
LongInitReproduced ==
    /\ runs = 2
    /\ pc = "stage1"
    /\ state = StateAfterPasses(params, LatePasses(params))
    /\ trajectoryData = SamplesOfPasses(params, LatePasses(params))

\* C25: starting from flight-path angle pi/2, the flight-path angle of the
\* state is still exactly pi/2 after every integrator step that ends at an
\* elapsed time of at most 8 s, whatever the stage, altitude and speed.
C25_VerticalAscentKeepsAngle ==
    (pc \in {"stage1", "stage2", "coast"} /\ state.time <= Sec(8))
        => state.flightPathAngle = HalfPi

\* a vehicle above the mass floor (its derivatives are evaluated) after the
\* step that ends at 8 s, in the coast of stage 2
C25_Witness ==
    /\ pc = "coast"
    /\ state.time = Sec(8)
    /\ state.mass > MassFloor
    /\ state.vy # 0
    /\ state.flightPathAngle = HalfPi

\* the layer with the greatest base altitude that is <= altitude
GreatestBaseLayer(altitude) ==
    CHOOSE i \in 1..Len(ATMOSPHERIC_LAYERS) :
        /\ ATMOSPHERIC_LAYERS[i].altitude <= altitude
        /\ \A j \in 1..Len(ATMOSPHERIC_LAYERS) :
               ATMOSPHERIC_LAYERS[j].altitude <= altitude
                   => ATMOSPHERIC_LAYERS[j].altitude <= ATMOSPHERIC_LAYERS[i].altitude

\* C26: for an altitude in [0, Karman line] the atmosphere lookup selects the
\* layer with the greatest base altitude <= the altitude (a boundary altitude
\* selects the upper layer); a negative altitude gives the first layer's
\* sea-level values; an altitude above the Karman line gives density,
\* pressure, temperature and speed of sound 0.
C26_AtmosphereLookup ==
    pc = "atmosphere" =>
        /\ (params.altitude >= 0 /\ params.altitude <= KARMAN_LINE)
               => state.layer = GreatestBaseLayer(params.altitude)
        /\ params.altitude < 0
               => /\ state.layer = 1
                  /\ state.temperature = ATMOSPHERIC_LAYERS[1].temperature
                  /\ state.pressure = ATMOSPHERIC_LAYERS[1].pressure
        /\ params.altitude > KARMAN_LINE
               => /\ state.density = 0
                  /\ state.pressure = 0
                  /\ state.temperature = 0
                  /\ state.soundSpeed = 0

\* the lookup at the boundary between the first two layers
C26_Witness ==
    /\ pc = "atmosphere"
    /\ params.altitude = ATMOSPHERIC_LAYERS[2].altitude
    /\ state.layer = 2
    /\ state.temperature = ATMOSPHERIC_LAYERS[2].temperature

\* C27: for 0 < stage1BurnTime <= maxSimulationTime the stage-1 phase records
\* exactly ceil(stage1BurnTime / dt) samples and separates at the smallest
\* multiple of dt >= stage1BurnTime, because the loop guard
\* state.position.y >= 0 can never end a phase early: it holds of the state
\* every integrator step returns.
C27_AltitudeGuardNeverEndsPhase ==
    pc = "loop test" => FGe(state.y, Fin(0))

\* C28: the simulated mission time never exceeds maxSimulationTime (1200 s):
\* no recorded sample has a time greater than maxSimulationTime and the
\* reported totalFlightTime is at most maxSimulationTime, the coast phase
\* included.
C28_TimeWithinMaxSimulationTime ==
    /\ \A i \in 1..Len(trajectoryData) :
           trajectoryData[i].time <= ToFixed3(Sec(maxSimulationTime))
    /\ simulation.status = "completed"
           => simulation.optimalParams.totalFlightTime <= Sec(maxSimulationTime)

\* C29: in every SimulationResult stage1TrajectoryData followed by
\* stage2TrajectoryData is exactly trajectoryData, and
\* plots.stage1Trajectory followed by plots.stage2Trajectory has one point
\* per trajectory sample, in order, with that sample's time and altitude.
C29_StagesPartitionTrajectory ==
    simulation.status = "completed" =>
        /\ simulation.stage1TrajectoryData \o simulation.stage2TrajectoryData
               = simulation.trajectoryData
        /\ Len(simulation.plots.stage1Trajectory \o simulation.plots.stage2Trajectory)
               = Len(simulation.trajectoryData)
        /\ \A i \in 1..Len(simulation.trajectoryData) :
               /\ (simulation.plots.stage1Trajectory
                      \o simulation.plots.stage2Trajectory)[i].time
                      = simulation.trajectoryData[i].time
               /\ (simulation.plots.stage1Trajectory
                      \o simulation.plots.stage2Trajectory)[i].value
                      = simulation.trajectoryData[i].altitude

\* a result with stage-1 samples, stage-2 burn samples and coast samples,
\* whose altitudes differ
C29_Witness ==
    /\ simulation.status = "completed"
    /\ Len(simulation.stage1TrajectoryData) > 1
    /\ Len(simulation.stage2TrajectoryData) > 1
    /\ \E i \in 1..Len(simulation.trajectoryData) :
           /\ simulation.trajectoryData[i].stage = 2
           /\ simulation.trajectoryData[i].thrust = 0
    /\ \E i \in 1..Len(simulation.trajectoryData) :
           /\ simulation.trajectoryData[i].stage = 2
           /\ simulation.trajectoryData[i].thrust > 0
    /\ \E i, j \in 1..Len(simulation.trajectoryData) :
           simulation.trajectoryData[i].altitude # simulation.trajectoryData[j].altitude

\* C30: when runSimulation calls on one hook overlap, isRunning stays true
\* until all of them have settled: it is never false while a call is still
\* suspended in its delay or a run is in progress.
C30_RunningUntilAllSettled ==
    (pending # << >> \/ pc # "idle") => isRunning = TRUE

=============================================================================
